---- MODULE Spec2Model ----
(***************************************************************************)
(* A model of the HipChat client of src/hipchat.go: the connection state   *)
(* machine (connect / authenticate), the stanza dispatcher (listen) with   *)
(* its reconnect loop, and the subscriber channels.                        *)
(*                                                                         *)
(* The xmpp transport (package xmpp) is the environment: every call that   *)
(* reads from it (Dial, Next, Features, Query, Body) draws its result from *)
(* a small set, every call that writes to it is recorded on the handle.    *)
(* A goroutine is one record of procs; a step of the model is the code     *)
(* between two accesses of shared state (c.connection, the channels).      *)
(***************************************************************************)
EXTENDS Naturals, Sequences, FiniteSets

(* ---- program constants ------------------------------------------------ *)

\* for i := 1; i < 11; i++
InnerTries == 10

\* for m := 0; m < 5; m++
OuterRounds == 5

(* ---- bounds of the model ---------------------------------------------- *)

\* Dial calls the environment answers in one run (the first one included)
MaxDials == 3

\* read errors the environment raises in the dispatcher's Next
MaxReadErrors == 1

\* calls of Rooms() and Users() the caller makes
MaxCalls == 1

\* elements other than iq the server sends on one handle during negotiation
MaxFeed == 1

\* the same three bounds where the negotiation itself is examined (SpecAuth)
AuthDials == 2

AuthReadErrors == 1

\* stanzas the server sends to the dispatcher
MaxStanzas == 2

\* elements other than iq the server sends on one handle during negotiation
MaxAuthReads == 3

\* length of the mechanism list of a stream-features element
MaxMechs == 2

\* items of a discovery or roster reply
MaxItems == 2

\* items of a discovery or roster reply where the content of replies is not the point
FewItems == 0

\* facade writes (Status, Join, Say, KeepAlive) of the caller
MaxWrites == 3

VARIABLES
    connection,   \* c.connection: the handle the client currently refers to
    procs,        \* the goroutines: procs[1] is the caller of NewClient
    senders,      \* goroutines blocked in  c.onConnect <- true
    fault,        \* "running", or the value of panic(err) once raised
    env,          \* what the environment may still do (dials, errors, stanzas)
    arrived,      \* stanzas read from the server so far
    last,         \* the element the last step of authenticate processed
    events,       \* values received from OnConnect()
    delivered     \* Messages received from Messages(), in order of receipt

vars == <<connection, procs, senders, fault, env, arrived, last, events, delivered>>

(* ---- values ----------------------------------------------------------- *)

\* results of connect() and of Next(): nil or one of the errors
ErrNil       == "nil"
ErrRead      == "read error"               \* Next() in listen
ErrDial      == "dial error"               \* xmpp.Dial
ErrTransport == "transport error"          \* Next() in authenticate
ErrAuth      == "could not authenticate"   \* errors.New in authenticate

Mechs == {"PLAIN", "DIGEST-MD5"}

RECURSIVE SeqsUpTo(_, _)
SeqsUpTo(S, n) ==
    IF n = 0 THEN {<<>>}
    ELSE LET shorter == SeqsUpTo(S, n - 1)
         IN  shorter \cup {Append(s, x) : s \in {t \in shorter : Len(t) = n - 1}, x \in S}

\* the stream-features descriptor returned by Features()
Features == [StartTLS : BOOLEAN, Mechanisms : SeqsUpTo(Mechs, MaxMechs)]

\* attributes of an iq element read during negotiation
Attr == [Local : {"type", "id"}, Value : {"result", "error"}]
IqAttrs == {a \in SeqsUpTo(Attr, 2) :
               \A x, y \in 1..Len(a) : x # y => a[x].Local # a[y].Local}

\* xmpp.Dial has not been called yet
NoConn == [state |-> "none", tlsReq |-> FALSE, tls |-> FALSE, creds |-> 0,
           opens |-> 0, fed |-> 0, authed |-> FALSE]

\* the handle xmpp.Dial returns
NewConn(ok) == [NoConn EXCEPT !.state = IF ok THEN "open" ELSE "failed"]

NoElem == [kind |-> "none"]

NoLast == [op |-> "none"]

\* a goroutine running listen(), at the top of its loop
NewListener == [kind |-> "listen", pc |-> "next", m |-> 0, i |-> 0,
                err |-> ErrNil, elem |-> NoElem, made |-> 0, won |-> 0, evs |-> 0,
                req |-> 0, asked |-> "none"]

Running == fault = "running"

(* ---- NewClient -------------------------------------------------------- *)

\* the environment that does nothing: no budget, no subscriber on OnConnect()
\* (waiting), no connect-event offered while nobody was receiving (late), no
\* facade write made yet (wrote)
Quiet ==
    [dials |-> 0, readErrs |-> 0, stanzas |-> 0, calls |-> 0, feed |-> 0, items |-> 0,
     writes |-> 0, waiting |-> FALSE, late |-> 0, wrote |-> {}]

InitWith(e) ==
    /\ connection = NoConn
    /\ procs = <<[kind |-> "caller", pc |-> "connect", m |-> 0, i |-> 0,
                  err |-> ErrNil, elem |-> NoElem, made |-> 0, won |-> 0, evs |-> 0,
                  req |-> 0, asked |-> "none"]>>
    /\ senders = 0
    /\ fault = "running"
    /\ env = e
    /\ arrived = 0
    /\ last = NoLast
    /\ events = 0
    /\ delivered = <<>>

Init ==
    InitWith([Quiet EXCEPT !.dials = MaxDials, !.readErrs = MaxReadErrors,
                           !.stanzas = MaxStanzas, !.calls = MaxCalls, !.feed = MaxFeed,
                           !.items = FewItems])

(* ---- connect: lines 77-90, and what its caller does with the result ---- *)

\* a connect that starts the dispatch loop before it looks at the error
SpawnedAlways(res) == <<NewListener>>

\* line 87: the goroutines a run of connect that returns res has started
Spawned(res) == IF res = ErrNil THEN <<NewListener>> ELSE <<>>

\* a send on onConnect that is dropped when no subscriber is receiving
OfferedIfReceiving(res) == IF res = ErrNil /\ env.waiting THEN 1 ELSE 0

\* line 88: the sends on onConnect a run of connect that returns res has started
Offered(res) == IF res = ErrNil THEN 1 ELSE 0

\* listen, lines 197-206, after connect() returned nil: the loops go on to
\* the next attempt, and panic(err) follows the last one
NextAttempt(pr) ==
    IF pr.i + 1 <= InnerTries
    THEN [pr EXCEPT !.i = pr.i + 1, !.pc = "connect"]
    ELSE IF pr.m + 1 < OuterRounds
         THEN [pr EXCEPT !.m = pr.m + 1, !.i = 1, !.pc = "connect"]
         ELSE [pr EXCEPT !.pc = "panic"]

\* listen, lines 199-202:  err = c.connect(); if err != nil { goto Reconnected }
AfterConnectInListen(pr, res) ==
    LET q == [pr EXCEPT !.err = res, !.made = pr.made + 1,
                        !.won = IF res = ErrNil THEN pr.won + 1 ELSE pr.won,
                        !.evs = pr.evs + Offered(res)]
    IN  IF res # ErrNil
        THEN [q EXCEPT !.pc = "next", !.m = 0, !.i = 0]
        ELSE NextAttempt(q)

\* NewClient, lines 73-74:  err := c.connect(); return c, err
AfterConnectInNewClient(pr, res) ==
    [pr EXCEPT !.pc = "done", !.err = res]

AfterConnect(pr, res) ==
    IF pr.kind = "listen" THEN AfterConnectInListen(pr, res)
    ELSE AfterConnectInNewClient(pr, res)

\* connect() returns res to the goroutine p
ConnectReturns(p, res) ==
    LET pr == AfterConnect(procs[p], res)
    IN  /\ procs' = [procs EXCEPT ![p] = pr] \o Spawned(res)
        /\ senders' = senders + Offered(res)
        /\ fault' = IF pr.pc = "panic" THEN pr.err ELSE fault

\* lines 78-82 (after the sleep of line 198 when called from listen)
Dial(p, ok) ==
    /\ Running
    /\ procs[p].pc = "connect"
    /\ env.dials > 0
    /\ env' = [env EXCEPT !.dials = @ - 1]
    /\ connection' = NewConn(ok)
    /\ last' = NoLast
    /\ IF ok
       THEN /\ procs' = [procs EXCEPT ![p].pc = "stream"]
            /\ UNCHANGED <<senders, fault>>
       ELSE ConnectReturns(p, ErrDial)
    /\ UNCHANGED <<arrived, events, delivered>>

(* ---- authenticate: lines 155-190 -------------------------------------- *)

\* line 156
StreamOpen(p) ==
    /\ Running
    /\ procs[p].pc = "stream"
    /\ connection' = [connection EXCEPT !.opens = @ + 1]
    /\ procs' = [procs EXCEPT ![p].pc = "auth"]
    /\ last' = NoLast
    /\ UNCHANGED <<senders, fault, env, arrived, events, delivered>>

\* lines 158-161: Next() fails
AuthNextErr(p) ==
    /\ Running
    /\ procs[p].pc = "auth"
    /\ connection' = [connection EXCEPT
                        !.state = IF @ = "open" THEN "broken" ELSE @]
    /\ last' = [op |-> "error", p |-> p]
    /\ ConnectReturns(p, ErrTransport)
    /\ UNCHANGED <<env, arrived, events, delivered>>

\* the server may still send an element that does not end the negotiation
MayFeed == connection.state = "open" /\ connection.fed < env.feed

RECURSIVE CountPlain(_)
\* lines 169-173: one Auth call for every "PLAIN" of the list
CountPlain(ms) ==
    IF ms = <<>> THEN 0
    ELSE (IF Head(ms) = "PLAIN" THEN 1 ELSE 0) + CountPlain(Tail(ms))

\* the stream case without the else: credentials go out next to the STARTTLS request
OnFeaturesNoPrecedence(conn, f) ==
    [conn EXCEPT !.tlsReq = @ \/ f.StartTLS,
                 !.creds = @ + CountPlain(f.Mechanisms)]

\* the stream case looking at the first mechanism only
OnFeaturesFirstMechanism(conn, f) ==
    IF f.StartTLS
    THEN [conn EXCEPT !.tlsReq = TRUE]
    ELSE [conn EXCEPT !.creds = @ + (IF f.Mechanisms # <<>> /\ Head(f.Mechanisms) = "PLAIN"
                                     THEN 1 ELSE 0)]

\* lines 164-174: what the stream case does to the handle
OnFeatures(conn, f) ==
    IF f.StartTLS
    THEN [conn EXCEPT !.tlsReq = TRUE]
    ELSE [conn EXCEPT !.creds = @ + CountPlain(f.Mechanisms)]

\* lines 175-177: UseTLS, then Stream again
OnProceed(conn) ==
    [conn EXCEPT !.tls = TRUE, !.opens = @ + 1]

AuthStream(p, f) ==
    /\ Running
    /\ procs[p].pc = "auth"
    /\ MayFeed
    /\ connection' = [OnFeatures(connection, f) EXCEPT !.fed = @ + 1]
    /\ last' = [op |-> "stream", p |-> p, f |-> f]
    /\ UNCHANGED <<procs, senders, fault, env, arrived, events, delivered>>

AuthProceed(p) ==
    /\ Running
    /\ procs[p].pc = "auth"
    /\ MayFeed
    /\ connection' = [OnProceed(connection) EXCEPT !.fed = @ + 1]
    /\ last' = [op |-> "proceed", p |-> p]
    /\ UNCHANGED <<procs, senders, fault, env, arrived, events, delivered>>

\* an element no case of the switch matches
AuthOther(p) ==
    /\ Running
    /\ procs[p].pc = "auth"
    /\ MayFeed
    /\ connection' = [connection EXCEPT !.fed = @ + 1]
    /\ last' = [op |-> "other", p |-> p]
    /\ UNCHANGED <<procs, senders, fault, env, arrived, events, delivered>>

\* the attribute loop comparing the value and not the name
IsResultAnyName(attrs) ==
    \E k \in 1..Len(attrs) : attrs[k].Value = "result"

\* lines 179-183
IsResult(attrs) ==
    \E k \in 1..Len(attrs) : attrs[k].Local = "type" /\ attrs[k].Value = "result"

\* lines 178-185: the result of authenticate on an iq element
IqResult(attrs) == IF IsResult(attrs) THEN ErrNil ELSE ErrAuth

AuthIq(p, attrs) ==
    /\ Running
    /\ procs[p].pc = "auth"
    /\ connection.state = "open"
    /\ connection' = [connection EXCEPT
                        !.authed = @ \/ IqResult(attrs) = ErrNil]
    /\ last' = [op |-> "iq", p |-> p, attrs |-> attrs]
    /\ ConnectReturns(p, IqResult(attrs))
    /\ env' = [env EXCEPT !.late = IF IqResult(attrs) = ErrNil /\ ~env.waiting
                                   THEN @ + 1 ELSE @]
    /\ UNCHANGED <<arrived, events, delivered>>

(* ---- listen: lines 192-256 -------------------------------------------- *)

\* lines 194-196: Next() fails and the reconnect loops are entered
ListenNextErr(l) ==
    /\ Running
    /\ procs[l].kind = "listen"
    /\ procs[l].pc = "next"
    /\ env.readErrs > 0
    /\ env' = [env EXCEPT !.readErrs = @ - 1]
    /\ connection' = [connection EXCEPT
                        !.state = IF @ = "open" THEN "broken" ELSE @]
    /\ procs' = [procs EXCEPT ![l] = [@ EXCEPT !.pc = "connect", !.m = 0, !.i = 1,
                                               !.err = ErrRead, !.made = 0, !.won = 0,
                                               !.evs = 0]]
    /\ last' = NoLast
    /\ UNCHANGED <<senders, fault, arrived, events, delivered>>

MsgTypes == {"chat", "groupchat", "normal"}

Bodies == {"", "hello"}

\* the items of a query (xmpp.Query: Jid, Name, MentionName)
ItemPool == {[Jid |-> "1_ops@conf.hipchat.com", Name |-> "Ops", MentionName |-> "ops"],
             [Jid |-> "1_2@chat.hipchat.com", Name |-> "Ann Lee", MentionName |-> "ann"]}

\* the namespace of the query that answers Rooms() (line 148) or Users() (line 152)
SpaceOf(what) == IF what = "rooms" THEN "disco" ELSE "roster"

\* what an iq of the namespace may answer: nothing (0: the server sends it
\* unrequested) or the latest request of the caller, when it was of that kind
Answers(space) ==
    {0} \cup {procs[c].req : c \in {d \in 1..Len(procs) :
                  procs[d].kind = "caller" /\ procs[d].asked # "none"
                  /\ SpaceOf(procs[d].asked) = space}}

\* the stanzas the server may send as the n-th one
Stanzas(n) ==
    [kind : {"message"}, mid : {n}, type : MsgTypes, from : {"1_ops@conf.hipchat.com/Ann Lee"},
     to : {"1_1@chat.hipchat.com/bot"}, body : Bodies]
    \cup UNION {[kind : {"iq"}, space : {sp}, items : SeqsUpTo(ItemPool, env.items),
                 re : Answers(sp)] : sp \in {"disco", "roster", "other"}}
    \cup [kind : {"presence", "other"}]

\* the rooms of a reply, last item first
ToRoomsReversed(items) ==
    [k \in 1..Len(items) |-> [Id |-> items[Len(items) + 1 - k].Jid,
                              Name |-> items[Len(items) + 1 - k].Name]]

\* lines 218-221
ToRooms(items) == [k \in 1..Len(items) |-> [Id |-> items[k].Jid, Name |-> items[k].Name]]

\* lines 224-227
ToUsers(items) ==
    [k \in 1..Len(items) |->
        [Id |-> items[k].Jid, Name |-> items[k].Name, MentionName |-> items[k].MentionName]]

\* the filter of the message case without the test of the body
QualifiesAnyBody(st) == st.type \in {"groupchat", "chat"}

\* lines 236-245: the filter of the message case
Qualifies(st) == st.type \in {"groupchat", "chat"} /\ st.body # ""

\* lines 247-253
ToMessage(st) ==
    [ID |-> st.mid, Type |-> st.type, From |-> st.from, To |-> st.to, Body |-> st.body]

\* lines 211-254: the value the dispatcher sends for the n-th stanza, and the
\* channel it sends it on; NoElem when the stanza produces nothing
Dispatch(st, n) ==
    IF st.kind = "iq" /\ st.space = "disco"
        THEN [kind |-> "rooms", seq |-> n, val |-> ToRooms(st.items), re |-> st.re]
    ELSE IF st.kind = "iq" /\ st.space = "roster"
        THEN [kind |-> "users", seq |-> n, val |-> ToUsers(st.items), re |-> st.re]
    ELSE IF st.kind = "message" /\ Qualifies(st)
        THEN [kind |-> "message", seq |-> n, val |-> ToMessage(st), re |-> 0]
    ELSE NoElem

\* line 194 and the switch of line 211, up to the channel send
ListenNext(l, st) ==
    /\ Running
    /\ procs[l].kind = "listen"
    /\ procs[l].pc = "next"
    /\ connection.state = "open"
    /\ env.stanzas > 0
    /\ env' = [env EXCEPT !.stanzas = @ - 1]
    /\ arrived' = arrived + 1
    /\ LET e == Dispatch(st, arrived + 1)
       IN  procs' = [procs EXCEPT ![l] = [@ EXCEPT !.elem = e,
                                    !.pc = IF e = NoElem THEN "next" ELSE "send"]]
    /\ last' = NoLast
    /\ UNCHANGED <<connection, senders, fault, events, delivered>>

\* line 247: the send on receivedMessage meets a receive on Messages()
SendMessage(l) ==
    /\ Running
    /\ procs[l].pc = "send"
    /\ procs[l].elem.kind = "message"
    /\ delivered' = Append(delivered, procs[l].elem)
    /\ procs' = [procs EXCEPT ![l] = [@ EXCEPT !.pc = "next", !.elem = NoElem]]
    /\ last' = NoLast
    /\ UNCHANGED <<connection, senders, fault, env, arrived, events>>

(* ---- the facade: lines 94-114 ----------------------------------------- *)

\* line 88: the send on onConnect meets a receive on OnConnect()
SendOnConnect ==
    /\ Running
    /\ senders > 0
    /\ env.waiting
    /\ senders' = senders - 1
    /\ events' = events + 1
    /\ env' = [env EXCEPT !.waiting = FALSE]
    /\ last' = NoLast
    /\ UNCHANGED <<connection, procs, fault, arrived, delivered>>

\* OnConnect (lines 94-96): a subscriber that holds the client returned by
\* NewClient starts a receive on the channel and blocks in it
Subscribe ==
    /\ Running
    /\ ~env.waiting
    /\ \E c \in 1..Len(procs) : procs[c].kind = "caller" /\ procs[c].pc # "connect"
    /\ env' = [env EXCEPT !.waiting = TRUE]
    /\ last' = NoLast
    /\ UNCHANGED <<connection, procs, senders, fault, arrived, events, delivered>>

\* lines 106 and 112: Rooms() or Users() sends its request
Request(c, what) ==
    /\ Running
    /\ procs[c].kind = "caller"
    /\ procs[c].pc = "done"
    /\ procs[c].err = ErrNil
    /\ env.calls > 0
    /\ env' = [env EXCEPT !.calls = @ - 1]
    /\ procs' = [procs EXCEPT ![c] = [@ EXCEPT !.pc = what, !.elem = NoElem,
                                               !.req = @ + 1, !.asked = what]]
    /\ last' = NoLast
    /\ UNCHANGED <<connection, senders, fault, arrived, events, delivered>>

\* lines 107/222 and 113/228: the dispatcher's send meets the caller's receive
Reply(c, l) ==
    /\ Running
    /\ procs[c].kind = "caller"
    /\ procs[c].pc \in {"rooms", "users"}
    /\ procs[l].pc = "send"
    /\ procs[l].elem.kind = procs[c].pc
    /\ procs' = [procs EXCEPT ![c] = [@ EXCEPT !.pc = "done", !.elem = procs[l].elem],
                              ![l] = [@ EXCEPT !.pc = "next", !.elem = NoElem]]
    /\ last' = NoLast
    /\ UNCHANGED <<connection, senders, fault, env, arrived, events, delivered>>

(* ---- the facade: writes on the current handle -------------------------- *)

\* a string is the sequence of its characters

\* host = "chat.hipchat.com"
host ==
    <<"c", "h", "a", "t", ".", "h", "i", "p", "c", "h", "a", "t", ".", "c", "o", "m">>

\* conf = "conf.hipchat.com"
conf ==
    <<"c", "o", "n", "f", ".", "h", "i", "p", "c", "h", "a", "t", ".", "c", "o", "m">>

\* strings.Contains(s, substr)
Contains(s, substr) ==
    \E i \in 0..(Len(s) - Len(substr)) : SubSeq(s, i + 1, i + Len(substr)) = substr

\* a room: "1_ops@" + conf
RoomJid == <<"1", "_", "o", "p", "s", "@">> \o conf

\* a user: "1_2@" + host
UserJid == <<"1", "_", "2", "@">> \o host

\* a user whose resource is spelled like the room service: "1_2@" + host + "/" + conf
UserJidConfResource == UserJid \o <<"/">> \o conf

\* a user of another service whose hostname starts like the room service:
\* "1_2@" + conf + ".au"
UserJidLongerHost == <<"1", "_", "2", "@">> \o conf \o <<".", "a", "u">>

\* the destinations Say is called with
Destinations == {RoomJid, UserJid, UserJidConfResource, UserJidLongerHost}

\* Say (lines 130-136): MUCSend when the destination contains conf, Send otherwise
SayCall(to) == IF Contains(to, conf) THEN "MUCSend" ELSE "Send"

\* the call on c.connection that each facade write makes
XmppCall(verb, to) ==
    CASE verb = "Status" -> "Presence"
      [] verb = "Join" -> "MUCPresence"
      [] verb = "Say" -> SayCall(to)
      [] verb = "KeepAlive" -> "KeepAlive"

\* the facade writes and their destination argument
FacadeWrites ==
    [verb : {"Status", "KeepAlive"}, to : {<<>>}]
    \cup [verb : {"Join"}, to : {RoomJid}]
    \cup [verb : {"Say"}, to : Destinations]

\* what c.connection is at the moment of a call: a ready session, a fresh
\* handle that authenticate is still working on, an open handle on which
\* authenticate failed, the handle of a failed dial, or a closed handle
HandleKind(conn) ==
    IF conn.state # "open" THEN conn.state
    ELSE IF conn.authed THEN "ready"
    ELSE IF \E p \in 1..Len(procs) : procs[p].pc \in {"stream", "auth"} THEN "authenticating"
    ELSE "rejected"

\* a facade write that waits for a ready session, which the code does not do
CanWriteWhenReady(conn) == conn.state = "open" /\ conn.authed

\* what a facade write requires of c.connection before it calls it: nothing, no
\* lock is taken and the handle is not looked at
CanWrite(conn) == TRUE

\* Status, Join, Say, KeepAlive: one call on whatever c.connection is now
Write(c, w) ==
    /\ Running
    /\ procs[c].kind = "caller"
    /\ procs[c].pc = "done"
    /\ procs[c].err = ErrNil
    /\ env.writes > 0
    /\ CanWrite(connection)
    /\ env' = [env EXCEPT !.writes = @ - 1, !.wrote = @ \cup {HandleKind(connection)}]
    /\ last' = [op |-> "write", p |-> c, verb |-> w.verb, to |-> w.to,
                fn |-> XmppCall(w.verb, w.to), on |-> HandleKind(connection)]
    /\ UNCHANGED <<connection, procs, senders, fault, arrived, events, delivered>>

(* ---- the system ------------------------------------------------------- *)

Procs == 1..Len(procs)

\* the connection manager: connect and authenticate
Connecting ==
    \/ \E p \in Procs, ok \in BOOLEAN : Dial(p, ok)
    \/ \E p \in Procs : StreamOpen(p)
    \/ \E p \in Procs : AuthNextErr(p)
    \/ \E p \in Procs, f \in Features : AuthStream(p, f)
    \/ \E p \in Procs : AuthProceed(p)
    \/ \E p \in Procs : AuthOther(p)
    \/ \E p \in Procs, a \in IqAttrs : AuthIq(p, a)

\* the dispatcher's read failure, which starts the reconnect loops
Failing == \E l \in Procs : ListenNextErr(l)

\* the dispatcher on stanzas, and the subscribers
Dispatching ==
    \/ \E l \in Procs, st \in Stanzas(arrived + 1) : ListenNext(l, st)
    \/ \E l \in Procs : SendMessage(l)
    \/ \E c \in Procs, what \in {"rooms", "users"} : Request(c, what)
    \/ \E c \in Procs, l \in Procs : Reply(c, l)

Next == Connecting \/ Failing \/ Dispatching \/ SendOnConnect \/ Subscribe

Spec == Init /\ [][Next]_vars

\* The negotiation in detail: the first connect and one reconnect, with a
\* server that sends up to MaxAuthReads elements before the iq.
InitAuth ==
    InitWith([Quiet EXCEPT !.dials = AuthDials, !.readErrs = AuthReadErrors,
                           !.feed = MaxAuthReads])

\* connecting and reconnecting, without stanzas and subscribers
Reconnecting == Connecting \/ Failing

SpecAuth == InitAuth /\ [][Reconnecting]_vars

\* One reconnect episode to its end: a client whose dispatcher meets one
\* read error, and an environment that answers every Dial of the loops.
InitExhaust ==
    InitWith([Quiet EXCEPT !.dials = InnerTries * OuterRounds + 1, !.readErrs = 1,
                           !.feed = MaxFeed])

SpecExhaust == InitExhaust /\ [][Reconnecting]_vars

\* connect with a server that answers the stream opening with the iq at once:
\* dial, open the stream, read the iq or a transport error
Opening ==
    \/ \E p \in Procs, ok \in BOOLEAN : Dial(p, ok)
    \/ \E p \in Procs : StreamOpen(p)
    \/ \E p \in Procs : AuthNextErr(p)
    \/ \E p \in Procs, attrs \in IqAttrs : AuthIq(p, attrs)

\* the session swap: the dispatcher's read fails and the loops connect again
Swapping == Opening \/ Failing

\* a subscriber of OnConnect() that comes and goes while the connection
\* manager reconnects

InitEvents ==
    InitWith([Quiet EXCEPT !.dials = MaxDials, !.readErrs = MaxReadErrors])

SpecEvents == InitEvents /\ [][Swapping \/ SendOnConnect \/ Subscribe]_vars

\* the dispatch loop of the first connect on a session that stays up, its
\* subscribers and a caller of Rooms() and Users(), with replies of several items

InitDispatch ==
    InitWith([Quiet EXCEPT !.dials = AuthDials, !.stanzas = MaxStanzas,
                           !.calls = MaxCalls, !.items = MaxItems])

SpecDispatch == InitDispatch /\ [][Opening \/ Dispatching]_vars

\* a caller that writes through the facade while the connection manager
\* reconnects

InitWrites ==
    InitWith([Quiet EXCEPT !.dials = MaxDials, !.readErrs = MaxReadErrors,
                           !.writes = MaxWrites])

Writing == \E c \in Procs, w \in FacadeWrites : Write(c, w)

SpecWrites == InitWrites /\ [][Swapping \/ Writing]_vars

(* ---- properties -------------------------------------------------------- *)

Listeners == {p \in Procs : procs[p].kind = "listen"}

\* the goroutine is inside the reconnect loops of listen (lines 196-205)
InEpisode(p) == procs[p].kind = "listen" /\ procs[p].pc \in {"connect", "stream", "auth"}

Attempts == InnerTries * OuterRounds

\* C1: in every reachable state at most one dispatch loop (listen) runs for
\* the client, during and after every reconnect episode.
C1_OneDispatchLoop == Cardinality(Listeners) <= 1

\* C2: the first connect attempt of a reconnect episode that succeeds ends
\* the episode: once an attempt has succeeded the dispatcher makes no further
\* attempt and is back at reading (or delivering) stanzas.
C2_SuccessEndsEpisode ==
    \A l \in Listeners : procs[l].won > 0 => procs[l].pc \in {"next", "send"}

\* C3: an episode all of whose connect attempts failed is left only by the
\* panic, after the 50th failed attempt.
C3_ExhaustionPanics ==
    \A l \in Listeners :
        (procs[l].made > 0 /\ procs[l].won = 0 /\ ~InEpisode(l))
            => (procs[l].made = Attempts /\ procs[l].pc = "panic")

\* C4: every successful run of connect offers exactly one true on the
\* connect-events channel, and a read failure followed by a successful
\* reconnect offers exactly one additional connect-event in that episode.
C4_OneEventPerReconnect ==
    /\ senders + events = Cardinality(Listeners)
    /\ \A l \in Listeners :
          /\ procs[l].evs <= 1
          /\ (procs[l].won > 0 /\ ~InEpisode(l)) => procs[l].evs = 1

\* C5: after a stanza read error followed by a successful reconnect the
\* client keeps running (so that the messages of the new session can still
\* be delivered on the same channel).
C5_KeepsRunningAfterReconnect ==
    (\E l \in Listeners : procs[l].won > 0) => Running

\* the Messages received so far were received in the order of their stanzas
InArrivalOrder ==
    \A a, b \in 1..Len(delivered) : a < b => delivered[a].seq < delivered[b].seq

\* C6: message stanzas are processed one at a time and Messages are delivered
\* in the order in which their stanzas arrived, reconnects included.
C6_OrderedOneAtATime ==
    /\ InArrivalOrder
    /\ Cardinality({l \in Procs : procs[l].pc = "send"}) <= 1

Range(q) == {q[k] : k \in 1..Len(q)}

\* what the calls made on the handle have sent, apart from the reads
Sent(conn) == <<conn.tlsReq, conn.tls, conn.creds, conn.opens>>

C8_PlainOnlyWithoutStartTLS ==
    [][ (last'.op = "stream" /\ ~last'.f.StartTLS)
            => /\ (connection'.creds > connection.creds)
                      <=> ("PLAIN" \in Range(last'.f.Mechanisms))
               /\ connection'.tlsReq = connection.tlsReq
               /\ connection'.tls = connection.tls
               /\ connection'.opens = connection.opens
               /\ ("PLAIN" \notin Range(last'.f.Mechanisms))
                      => /\ Sent(connection') = Sent(connection)
                         /\ procs' = procs
                         /\ procs'[last'.p].pc = "auth" ]_vars

\* PLAIN listed after another mechanism, no STARTTLS: credentials submitted
C8_Witness ==
    /\ last.op = "stream"
    /\ ~last.f.StartTLS
    /\ last.f.Mechanisms = <<"DIGEST-MD5", "PLAIN">>
    /\ connection.creds = 1
    /\ ~connection.tlsReq

\* C9: connect succeeds only after credentials were submitted on the
\* connection: a handle on which authenticate returned nil has had an Auth
\* call.
C9_ReadyOnlyAfterCredentials ==
    connection.authed => connection.creds > 0

\* the iq carries the attribute type="result"
CarriesTypeResult(attrs) == [Local |-> "type", Value |-> "result"] \in Range(attrs)

\* C10: authenticate ends at the first iq element it reads: connect returns
\* nil if and only if that iq carries type=result and the authentication
\* error otherwise; a read error ends it with the transport error, which
\* differs from the authentication error; nothing else ends it.
C10_FirstIqDecides ==
    [][ /\ (last'.op = "iq")
            => /\ procs'[last'.p].pc # "auth"
               /\ procs'[last'.p].err =
                      IF CarriesTypeResult(last'.attrs) THEN "nil"
                      ELSE "could not authenticate"
               /\ (Len(procs') = Len(procs) + 1) <=> CarriesTypeResult(last'.attrs)
        /\ (last'.op = "error")
            => /\ procs'[last'.p].pc # "auth"
               /\ procs'[last'.p].err = "transport error"
               /\ Len(procs') = Len(procs)
        /\ (\E p \in Procs : procs[p].pc = "auth" /\ procs'[p].pc # "auth")
            => last'.op \in {"iq", "error"} ]_vars

\* connect has returned the authentication error for an iq of type error
C10_Witness ==
    /\ last.op = "iq"
    /\ last.attrs = <<[Local |-> "id", Value |-> "result"], [Local |-> "type", Value |-> "error"]>>
    /\ procs[last.p].err = ErrAuth
    /\ procs[last.p].pc \in {"done", "next"}

\* the callers of the facade
Callers == {c \in Procs : procs[c].kind = "caller"}

\* the replies a dispatch loop holds on rooms-result or users-result, not yet received
PendingReplies == {l \in Listeners : procs[l].pc = "send" /\ procs[l].elem.kind \in {"rooms", "users"}}

\* C11: with Rooms() and Users() called one at a time, the result a call returns
\* is built from the reply to that call's own request, never from an
\* unrequested or left-over reply, and no reply waits on rooms-result or
\* users-result while no call of its kind is waiting for it.
C11_OwnReplyOnly ==
    /\ \A c \in Callers :
          (procs[c].pc = "done" /\ procs[c].elem # NoElem) => procs[c].elem.re = procs[c].req
    /\ \A l \in PendingReplies : \E c \in Callers : procs[c].pc = procs[l].elem.kind

\* C12: a facade write is not synchronized with the session swap: whenever the
\* caller holds a connected client it can write, whatever c.connection is at
\* that moment and whatever the reconnect loops are doing, so the write can
\* fall on a handle that is not a ready session.
C12_WritesUnsynchronized ==
    \A c \in Callers :
        (Running /\ procs[c].pc = "done" /\ procs[c].err = ErrNil /\ env.writes > 0)
            => \A w \in FacadeWrites : ENABLED Write(c, w)

\* writes have been made on the closed handle, on a fresh handle while a
\* reconnect was authenticating on it, and on the handle of a failed dial
C12_Witness ==
    /\ {"broken", "authenticating", "failed"} \subseteq env.wrote
    /\ last.op = "write"
    /\ last.on = "failed"

\* the dispatch loops blocked on the send of a Message nobody has taken yet
PendingMessages == {l \in Listeners : procs[l].pc = "send" /\ procs[l].elem.kind = "message"}

\* C13: while a qualifying message waits for a subscriber of Messages(), no
\* later stanza is processed, and no Rooms() or Users() call returns a reply
\* that arrived after that message.
C13_BlockedUntilTaken ==
    \A l \in PendingMessages :
        /\ arrived = procs[l].elem.seq
        /\ \A c \in Callers :
              (procs[c].pc = "done" /\ procs[c].elem # NoElem)
                  => procs[c].elem.seq < procs[l].elem.seq

\* C14 as stated: a connect-event offered while no subscriber was receiving on
\* OnConnect() is lost, so the events received never exceed the successful
\* connects that found a subscriber receiving.
C14_LostWithoutSubscriber == events <= Cardinality(Listeners) - env.late

\* C14, amended: a connect-event is not lost when no subscriber is receiving:
\* every successful connect leaves exactly one send waiting in a goroutine of
\* its own until it is received, and a subscriber that starts receiving
\* afterwards can take it.
C14_EventHeldUntilReceived ==
    /\ senders + events = Cardinality(Listeners)
    /\ (Running /\ senders > 0 /\ env.waiting) => ENABLED SendOnConnect

\* a subscriber has received an event although every connect so far succeeded
\* while nobody was receiving
C14_Witness ==
    /\ events > 0
    /\ env.late = Cardinality(Listeners)

\* C15: a message stanza yields a Message exactly when its type is chat or
\* groupchat and its body is not empty; a stanza that fails the test leaves no
\* event and the dispatch loop goes on; one that passes yields one Message with
\* the stanza's id, sender, recipient, type and body, delivered once.
C15_MessageFilter ==
    [][ /\ \A l \in Procs : \A st \in Stanzas(arrived + 1) :
              (st.kind = "message" /\ ListenNext(l, st))
                  => IF st.type \in {"chat", "groupchat"} /\ st.body # ""
                     THEN /\ procs'[l].pc = "send"
                          /\ procs'[l].elem.kind = "message"
                          /\ procs'[l].elem.val =
                                 [ID |-> st.mid, Type |-> st.type, From |-> st.from,
                                  To |-> st.to, Body |-> st.body]
                     ELSE /\ procs'[l].pc = "next"
                          /\ procs'[l].elem = [kind |-> "none"]
                          /\ delivered' = delivered
                          /\ fault' = "running"
        /\ \A l \in Procs :
              SendMessage(l) => /\ delivered' = Append(delivered, procs[l].elem)
                                /\ procs'[l].pc = "next"
                                /\ procs'[l].elem = [kind |-> "none"]
        /\ (delivered' # delivered)
              => \E l \in PendingMessages : /\ delivered' = Append(delivered, procs[l].elem)
                                            /\ procs'[l].elem = [kind |-> "none"] ]_vars

\* a message that passed the test has been received, and one that failed it
\* was read after it and left nothing
C15_Witness ==
    /\ Len(delivered) = 1
    /\ arrived = 2
    /\ PendingMessages = {}
    /\ delivered[1].seq = 1
    /\ delivered[1].val.Body = "hello"

\* C16: a discovery reply of N items yields one send on rooms-result of N
\* Rooms in item order (id from the address, name from the label), a roster
\* reply one send on users-result of N Users (id, name, mention name), for
\* every N from 0 on, and neither is sent on the other channel.
C16_RepliesConverted ==
    [][ /\ \A l \in Procs : \A st \in Stanzas(arrived + 1) :
              (st.kind = "iq" /\ st.space \in {"disco", "roster"} /\ ListenNext(l, st))
                  => /\ procs'[l].pc = "send"
                     /\ procs'[l].elem.kind = (IF st.space = "disco" THEN "rooms" ELSE "users")
                     /\ Len(procs'[l].elem.val) = Len(st.items)
                     /\ \A k \in 1..Len(st.items) :
                           procs'[l].elem.val[k] =
                               IF st.space = "disco"
                               THEN [Id |-> st.items[k].Jid, Name |-> st.items[k].Name]
                               ELSE [Id |-> st.items[k].Jid, Name |-> st.items[k].Name,
                                     MentionName |-> st.items[k].MentionName]
        /\ \A c \in Procs : \A l \in Procs :
              Reply(c, l) => /\ procs[c].pc = procs[l].elem.kind
                             /\ procs'[c].elem = procs[l].elem
                             /\ procs'[l].pc = "next"
                             /\ procs'[l].elem = [kind |-> "none"]
        /\ \A c \in Callers :
              (procs[c].pc \in {"rooms", "users"} /\ procs'[c].pc = "done")
                  => \E l \in PendingReplies : /\ procs[l].elem.kind = procs[c].pc
                                               /\ procs'[c].elem = procs[l].elem ]_vars

\* Rooms() has returned the two rooms of a discovery reply, in the order of
\* the reply's items
C16_Witness ==
    \E c \in Callers :
        /\ procs[c].pc = "done"
        /\ procs[c].elem # NoElem
        /\ procs[c].elem.kind = "rooms"
        /\ Len(procs[c].elem.val) = 2
        /\ procs[c].elem.val[1].Id # procs[c].elem.val[2].Id

\* C17: when the dial or the authentication of a connect fails, the error is
\* returned in that same call to the caller of connect, and through NewClient
\* to the caller of the constructor, and the failed attempt starts no dispatch
\* loop and offers no connect-event.
C17_FailureReturned ==
    [][ \A p \in Procs :
          /\ (procs[p].pc = "connect" /\ procs'[p] # procs[p] /\ connection'.state = "failed")
                => /\ procs'[p].err = "dial error"
                   /\ procs'[p].pc = (IF procs[p].kind = "caller" THEN "done" ELSE "next")
                   /\ Len(procs') = Len(procs)
                   /\ senders' = senders /\ events' = events
          /\ (procs[p].pc = "auth" /\ procs'[p] # procs[p]
              /\ (last'.op = "error" \/ (last'.op = "iq" /\ ~CarriesTypeResult(last'.attrs))))
                => /\ procs'[p].err = (IF last'.op = "error" THEN "transport error"
                                       ELSE "could not authenticate")
                   /\ procs'[p].pc = (IF procs[p].kind = "caller" THEN "done" ELSE "next")
                   /\ Len(procs') = Len(procs)
                   /\ senders' = senders /\ events' = events ]_vars

\* NewClient has returned the error of a failed authentication: no dispatch
\* loop, no connect-event
C17_Witness ==
    /\ Len(procs) = 1
    /\ procs[1].pc = "done"
    /\ procs[1].err = "could not authenticate"
    /\ senders = 0

\* the first position of the character ch in s, 0 when it does not occur
IndexOf(s, ch) ==
    IF \E i \in 1..Len(s) : s[i] = ch
    THEN CHOOSE i \in 1..Len(s) : s[i] = ch /\ \A j \in 1..(i - 1) : s[j] # ch
    ELSE 0

\* the domain of an address  node@domain/resource
DomainOf(to) ==
    LET rest == SubSeq(to, IndexOf(to, "@") + 1, Len(to))
    IN  IF IndexOf(rest, "/") = 0 THEN rest ELSE SubSeq(rest, 1, IndexOf(rest, "/") - 1)

\* C18: Say sends on the group-chat path exactly when the destination is in
\* the room-service domain and on the direct path for every other destination,
\* also one that only contains the room-service hostname somewhere in its
\* address; each call makes one of the two sends.
C18_SayRouting ==
    (last.op = "write" /\ last.verb = "Say")
        => /\ last.fn \in {"MUCSend", "Send"}
           /\ (last.fn = "MUCSend") <=> (DomainOf(last.to) = conf)

\* C19: a dispatch loop reads only from a session on which connect completed:
\* whenever it is about to read, c.connection is a ready session, and after a
\* reconnect episode it reads again only when its last attempt succeeded.
C19_ReadsOnlyReadySession ==
    \A l \in Listeners :
        procs[l].pc = "next"
            => /\ connection.state = "open" /\ connection.authed
               /\ procs[l].made > 0 => procs[l].err = "nil"

\* C20: the fault is raised only at the end of an episode in which every
\* connect attempt failed, and it carries the error of the last failed
\* attempt; it is never raised in an episode in which an attempt succeeded.
C20_FaultOnlyAfterAllFailed ==
    /\ ~Running => \E l \in Listeners : procs[l].pc = "panic"
    /\ \A l \in Listeners :
          procs[l].pc = "panic"
              => /\ procs[l].won = 0
                 /\ fault = procs[l].err
                 /\ fault \in {"dial error", "transport error", "could not authenticate"}

====
